---- MODULE Spec2Model ----
(***************************************************************************)
(* ViajaAI: the trip store of App.tsx (trips, days, activities, local      *)
(* persistence) and the assistant bridge of ChatPanel (handleSend,         *)
(* executeTools), as one state machine.                                    *)
(*                                                                         *)
(* React state is modelled as React keeps it: a setTrips(updater) call     *)
(* queues the updater, and the next render applies the queue, commits the  *)
(* result and runs the effects (persistence, tripRef, chat reset).  An     *)
(* updater that throws is thrown by the render; App has no error boundary, *)
(* so the root is unmounted (crashed).                                     *)
(***************************************************************************)
EXTENDS Integers, Sequences, FiniteSets, TLC

VARIABLES
    tzOffset,        \* the browser's zone: local time = UTC + offset hours
    auth,            \* the auth service, and App's user, authLoading, isGuestMode
    storage,         \* localStorage entry under the key 'viajaai_trips'
    appPhase,        \* "mounted" -> "loaded" -> "running" (mount effects)
    crashed,         \* a render threw: the React root is unmounted
    trips,           \* App state: committed trip list
    selectedTripId,  \* App state
    updateQueue,     \* setTrips / setSelectedTripId updates not yet rendered
    editingActivity, \* App state: the editor's draft, or NoEdit
    clock,           \* Date.now(), in ticks
    messages,        \* ChatPanel state: the transcript
    input,           \* ChatPanel state: the text box
    isLoading,       \* ChatPanel state
    processingTool,  \* ChatPanel state
    chatInstance,    \* ChatPanel ref: the chat session, or NoChat
    tripRef,         \* ChatPanel ref: the trip of the last committed render
    pc,              \* where the running handleSend is suspended
    turn             \* the locals and closure of the running handleSend

vars == <<tzOffset, auth, storage, appPhase, crashed, trips, selectedTripId,
          updateQueue, editingActivity, clock, messages, input, isLoading,
          processingTool, chatInstance, tripRef, pc, turn>>

restOfApp == <<tzOffset, storage, appPhase, crashed, trips, selectedTripId,
               updateQueue, editingActivity, clock>>
appVars == <<trips, selectedTripId, updateQueue, editingActivity, storage,
             appPhase, crashed>>
chatVars == <<messages, input, isLoading, processingTool, chatInstance,
              tripRef, pc, turn>>

-----------------------------------------------------------------------------
(* Bounds of the model.                                                    *)

MaxTrips == 2        \* trips in the list
MaxActs == 2         \* activities held by one trip
MaxClock == 4        \* Date.now() stops below MaxClock
MaxBatch == 2        \* tool invocations in one reply of the model
MaxRounds == 1       \* replies with tool invocations in one turn
MaxTurns == 1        \* turns in one run
MaxDate == 4         \* calendar dates 1..MaxDate offered by the date inputs

-----------------------------------------------------------------------------
(* JavaScript values.  A property is a string, a number, undefined, or is  *)
(* absent from its object (Absent reads as undefined).                     *)

Str(s) == [k |-> "string", s |-> s]
Num(n) == [k |-> "number", n |-> n]
Undefined == [k |-> "undefined"]
Absent == [k |-> "absent"]

IsString(v) == v.k = "string"
IsNumber(v) == v.k = "number"
\* reading obj.key: an absent key reads as undefined
Read(v) == IF v = Absent THEN Undefined ELSE v
\* the value is truthy (x && ..., x || ...)
Truthy(v) ==
    CASE v.k = "string" -> v.s # ""
      [] v.k = "number" -> v.n # 0
      [] OTHER -> FALSE

\* UTF-16 code units of the strings the model uses; on these strings the
\* order of the code units is the order of localeCompare
CodeUnits(s) ==
    CASE s = "" -> <<>>
      [] s = "08:30" -> <<48, 56, 58, 51, 48>>
      [] s = "12:00" -> <<49, 50, 58, 48, 48>>
      [] s = "19:15" -> <<49, 57, 58, 49, 53>>
      [] s = "0" -> <<48>>
      [] s = "100" -> <<49, 48, 48>>
      [] s = "900" -> <<57, 48, 48>>
      [] s = "undefined" -> <<117, 110, 100, 101, 102, 105, 110, 101, 100>>

\* ToString(v), as String.prototype.localeCompare coerces its argument
JSToString(v) ==
    CASE v.k = "string" -> v.s
      [] v.k = "number" -> (CASE v.n = 0 -> "0"
                              [] v.n = 100 -> "100"
                              [] v.n = 900 -> "900")
      [] OTHER -> "undefined"

RECURSIVE CompareUnits(_, _)
CompareUnits(a, b) ==
    IF a = <<>> /\ b = <<>> THEN 0
    ELSE IF a = <<>> THEN -1
    ELSE IF b = <<>> THEN 1
    ELSE IF Head(a) < Head(b) THEN -1
    ELSE IF Head(a) > Head(b) THEN 1
    ELSE CompareUnits(Tail(a), Tail(b))

\* a.localeCompare(b) for a string a; b is coerced with ToString(b)
localeCompare(a, b) == CompareUnits(CodeUnits(a.s), CodeUnits(JSToString(b)))

-----------------------------------------------------------------------------
(* Array.prototype.sort((a,b) => a.time.localeCompare(b.time)).            *)
(* The comparator throws a TypeError when a.time is not a string.  Which   *)
(* element of a compared pair is passed as a is left to the engine, so a   *)
(* list of two or more elements that holds a non-string time may throw     *)
(* (engineThrows) and throws for sure when no time is a string.  When no   *)
(* call throws, the result is the stable sort by ToString(time).           *)

TimeOf(a) == Read(a.time)

TimeLE(a, b) ==
    CompareUnits(CodeUnits(JSToString(TimeOf(a))),
                 CodeUnits(JSToString(TimeOf(b)))) <= 0

SortThrows(xs, engineThrows) ==
    /\ Len(xs) >= 2
    /\ \/ \A i \in 1..Len(xs) : ~IsString(TimeOf(xs[i]))
       \/ engineThrows /\ \E i \in 1..Len(xs) : ~IsString(TimeOf(xs[i]))

\* x inserted behind every element that does not sort after it (stable)
RECURSIVE InsertByTime(_, _)
InsertByTime(sorted, x) ==
    IF sorted = <<>> THEN <<x>>
    ELSE IF TimeLE(Head(sorted), x)
         THEN <<Head(sorted)>> \o InsertByTime(Tail(sorted), x)
         ELSE <<x>> \o sorted

RECURSIVE SortByTimeFrom(_, _)
SortByTimeFrom(sorted, rest) ==
    IF rest = <<>> THEN sorted
    ELSE SortByTimeFrom(InsertByTime(sorted, Head(rest)), Tail(rest))

SortByTime(xs) == SortByTimeFrom(<<>>, xs)

-----------------------------------------------------------------------------
(* Dates.  An ISO date 'YYYY-MM-DD' is the number of its calendar day; a   *)
(* Date object is its time value in hours since the epoch.                 *)

HoursPerDay == 24
Noon == 12

\* new Date('YYYY-MM-DD'): a date-only string is parsed as UTC midnight
ParseDate(d) == d * HoursPerDay
\* A zone is [before, after, changeDay]: the offset is `before` hours until
\* 02:00 local time of changeDay and `after` from then on; a zone without
\* daylight saving has before = after.
FixedZone(offset) ==
    [before |-> offset, after |-> offset, changeDay |-> 0]
ChangeHour == 2
OffsetAt(t, tz) ==
    IF t >= tz.changeDay * HoursPerDay + ChangeHour - tz.before
    THEN tz.after ELSE tz.before
\* getFullYear()/getMonth()/getDate(): the calendar day in local time
LocalDay(t, tz) == (t + OffsetAt(t, tz)) \div HoursPerDay
\* new Date(y, m, d, 12, 0, 0): noon of a local calendar day
LocalNoon(day, tz) ==
    day * HoursPerDay + Noon
        - (IF day >= tz.changeDay THEN tz.after ELSE tz.before)
\* toISOString().split('T')[0]: the calendar day in UTC
ISODate(t) == t \div HoursPerDay

\* the while loop; current is noon of the local day `day`, and
\* current.setDate(current.getDate() + 1) is noon of the next local day
RECURSIVE generateDaysLoop(_, _, _, _)
generateDaysLoop(day, endLimit, days, tz) ==
    LET current == LocalNoon(day, tz)
    IN  IF current <= endLimit
        THEN generateDaysLoop(day + 1, endLimit,
                 Append(days, [id |-> current, date |-> ISODate(current),
                               activities |-> <<>>]), tz)
        ELSE days

\* a date string that new Date cannot parse
InvalidDate == 0

\* new Date of an unparsable string is an Invalid Date; its getters give
\* NaN, the Date built from them is invalid too, and current <= endLimit
\* with NaN on either side is false: the loop does not run
generateDays(start, end, tz) ==
    LET startDate == ParseDate(start)
        endDate == ParseDate(end)
        endLimit == LocalNoon(LocalDay(endDate, tz), tz)
    IN  IF start = InvalidDate \/ end = InvalidDate THEN <<>>
        ELSE generateDaysLoop(LocalDay(startDate, tz), endLimit, <<>>, tz)

-----------------------------------------------------------------------------
(* The trip store.  An activity is [id, time, title, type, cost]; the      *)
(* optional location, notes, lat and lng are carried like cost and are not *)
(* modelled.  A day is [id, date, activities], a trip is [id, title,       *)
(* destination, startDate, endDate, days].                                 *)

NoTrip == 0                     \* selectedTripId = null
NoActivity == <<0, 0>>          \* an activityId that names no activity
ActFields == {"time", "title", "type", "cost"}
NoFields == [f \in ActFields |-> Absent]

\* { ...base, ...over }: every key of over, undefined ones too, overrides base
Spread(base, over) ==
    [f \in DOMAIN base |->
        IF f \in DOMAIN over /\ over[f] # Absent THEN over[f] ELSE base[f]]

\* Date.now().toString() + Math.random().toString().slice(2,5)
RandomSuffixes == {0, 1}
newActivityId(now, random) == <<now, random>>

\* the defaults of handleAddActivity, lines 169-172
defaultFields ==
    [time |-> Str("12:00"), title |-> Str("Nova Atividade"),
     type |-> Str("OTHER"), cost |-> Num(0)]

\* handleAddActivity, lines 167-174: the defaults, then the supplied keys
newActivity(id, activityData) ==
    Spread([id |-> id, time |-> defaultFields.time,
            title |-> defaultFields.title, type |-> defaultFields.type,
            cost |-> defaultFields.cost], activityData)

\* trips.find(t => t.id === selectedTripId) || trips[0]
HasSelected(ts, sel) == \E i \in 1..Len(ts) : ts[i].id = sel
selectedTripOf(ts, sel) ==
    IF HasSelected(ts, sel)
    THEN ts[CHOOSE i \in 1..Len(ts) :
                /\ ts[i].id = sel
                /\ \A j \in 1..(i - 1) : ts[j].id # sel]
    ELSE ts[1]

\* x || y and x + y of JavaScript: + adds two numbers and otherwise
\* concatenates the strings of its operands
JSOr(x, y) == IF Truthy(x) THEN x ELSE y
JSPlus(x, y) ==
    IF IsNumber(x) /\ IsNumber(y) THEN Num(x.n + y.n)
    ELSE Str(JSToString(x) \o JSToString(y))

\* acts.reduce((dayTotal, act) => dayTotal + (act.cost || 0), 0)
RECURSIVE reduceActivities(_, _)
reduceActivities(dayTotal, acts) ==
    IF acts = <<>> THEN dayTotal
    ELSE reduceActivities(JSPlus(dayTotal, JSOr(Read(Head(acts).cost), Num(0))),
                          Tail(acts))

\* a faulty reduceDays, which stops behind the first day: C16 must tell it
\* from reduceDays
reduceDaysFirstOnly(total, days) ==
    IF days = <<>> THEN total
    ELSE JSPlus(total,
                JSOr(reduceActivities(Num(0), Head(days).activities),
                     Num(0)))

\* days.reduce((total, day) => total + (day.activities.reduce(...) || 0), 0)
RECURSIVE reduceDays(_, _)
reduceDays(total, days) ==
    IF days = <<>> THEN total
    ELSE reduceDays(JSPlus(total,
                           JSOr(reduceActivities(Num(0), Head(days).activities),
                                Num(0))),
                    Tail(days))

\* calculateTotalCost, lines 107-112; selectedTrip is undefined when there
\* is no trip
calculateTotalCost(ts, sel) ==
    IF ts = <<>> THEN Num(0)
    ELSE JSOr(reduceDays(Num(0), selectedTripOf(ts, sel).days), Num(0))

\* the activity lists an updater sorts: those of the days named dayId of the
\* trips named sel
Targets(prevTrips, sel, dayId) ==
    UNION {{<<i, j>> : j \in {n \in 1..Len(prevTrips[i].days) :
                                 prevTrips[i].days[n].id = dayId}} :
           i \in {m \in 1..Len(prevTrips) : prevTrips[m].id = sel}}

\* prevTrips.map(trip => ...), with change(activities) applied to every day
\* named dayId of every trip named sel
MapDay(prevTrips, sel, dayId, change(_)) ==
    [i \in 1..Len(prevTrips) |->
        IF prevTrips[i].id # sel THEN prevTrips[i]
        ELSE [prevTrips[i] EXCEPT !.days =
                [j \in 1..Len(@) |->
                    IF @[j].id = dayId
                    THEN [@[j] EXCEPT !.activities = change(@)]
                    ELSE @[j]]]]

\* a faulty addUpdater, which appends and does not sort: C1_DaysSorted
\* must tell it from addUpdater
addUpdaterUnsorted(prevTrips, u) ==
    LET change(acts) == Append(acts, u.activity)
    IN  MapDay(prevTrips, u.sel, u.dayId, change)

\* a faulty addUpdater, which does not compare trip.id with selectedTripId:
\* C27 must tell it from addUpdater
addUpdaterAnyTrip(prevTrips, u) ==
    [i \in 1..Len(prevTrips) |->
        [prevTrips[i] EXCEPT !.days =
            [j \in 1..Len(@) |->
                IF @[j].id = u.dayId
                THEN [@[j] EXCEPT !.activities =
                        SortByTime(Append(@, u.activity))]
                ELSE @[j]]]]

\* the setTrips updater of handleAddActivity
addUpdater(prevTrips, u) ==
    LET change(acts) == SortByTime(Append(acts, u.activity))
    IN  MapDay(prevTrips, u.sel, u.dayId, change)

\* a faulty deleteUpdater, which drops the first activity of the day when
\* none has the id: C15 must tell it from deleteUpdater
deleteUpdaterSome(prevTrips, u) ==
    LET keep(a) == a.id # u.activityId
        change(acts) == IF SelectSeq(acts, keep) = acts /\ acts # <<>>
                        THEN Tail(acts) ELSE SelectSeq(acts, keep)
    IN  MapDay(prevTrips, u.sel, u.dayId, change)

\* the setTrips updater of handleDeleteActivity
deleteUpdater(prevTrips, u) ==
    LET keep(a) == a.id # u.activityId
        change(acts) == SelectSeq(acts, keep)
    IN  MapDay(prevTrips, u.sel, u.dayId, change)

\* a faulty updateUpdater, which merges the updates into every activity of
\* the day: C14 must tell it from updateUpdater
updateUpdaterAny(prevTrips, u) ==
    LET merge(acts) == [n \in 1..Len(acts) |-> Spread(acts[n], u.updates)]
        change(acts) == SortByTime(merge(acts))
    IN  MapDay(prevTrips, u.sel, u.dayId, change)

\* the setTrips updater of handleUpdateActivity
updateUpdater(prevTrips, u) ==
    LET merge(acts) == [n \in 1..Len(acts) |->
                           IF acts[n].id = u.activityId
                           THEN Spread(acts[n], u.updates) ELSE acts[n]]
        change(acts) == SortByTime(merge(acts))
    IN  MapDay(prevTrips, u.sel, u.dayId, change)

\* the list an updater hands to sort, for the day at <<i, j>>
SortInput(prevTrips, u, at) ==
    LET acts == prevTrips[at[1]].days[at[2]].activities
    IN  IF u.op = "add" THEN Append(acts, u.activity)
        ELSE [n \in 1..Len(acts) |->
                 IF acts[n].id = u.activityId
                 THEN Spread(acts[n], u.updates) ELSE acts[n]]

\* the updater raises: its comparator is called with a non-string a.time
updaterThrows(prevTrips, u, engineThrows) ==
    /\ u.op \in {"add", "update"}
    /\ \E at \in Targets(prevTrips, u.sel, u.dayId) :
           SortThrows(SortInput(prevTrips, u, at), engineThrows)

\* one queued update applied to the state a render is computing
applyUpdate(st, u, engineThrows) ==
    IF st.threw THEN st
    ELSE IF updaterThrows(st.trips, u, engineThrows)
         THEN [st EXCEPT !.threw = TRUE]
    ELSE CASE u.op = "add" -> [st EXCEPT !.trips = addUpdater(@, u)]
           [] u.op = "delete" -> [st EXCEPT !.trips = deleteUpdater(@, u)]
           [] u.op = "update" -> [st EXCEPT !.trips = updateUpdater(@, u)]
           [] u.op = "create" -> [st EXCEPT !.trips = <<u.trip>> \o @]
           [] u.op = "load" -> [st EXCEPT !.trips = u.trips]
           [] u.op = "select" -> [st EXCEPT !.sel = u.id]

RECURSIVE applyQueue(_, _, _)
applyQueue(st, queue, engineThrows) ==
    IF queue = <<>> THEN st
    ELSE applyQueue(applyUpdate(st, Head(queue), engineThrows), Tail(queue),
                    engineThrows)

-----------------------------------------------------------------------------
(* Local persistence.  The stored text is empty, unparsable, or the JSON of *)
(* a value that is an array or is none; an element of the array is         *)
(* described by what isValidTrip reads: its typeof (k), the typeof of its   *)
(* id, and whether its days is an array.                                   *)

\* JSON.stringify drops the keys whose value is undefined
jsonActivity(a) ==
    [f \in DOMAIN a |->
        IF f = "id" THEN a.id
        ELSE IF a[f] = Undefined THEN Absent ELSE a[f]]

jsonTripShallow(t) ==
    [t EXCEPT !.days =
        [j \in 1..Len(@) |-> [@[j] EXCEPT !.activities = <<>>]]]

jsonTrip(t) ==
    [t EXCEPT !.days =
        [j \in 1..Len(@) |->
            [@[j] EXCEPT !.activities =
                [n \in 1..Len(@) |-> jsonActivity(@[n])]]]]

jsonEntry(t) ==
    [k |-> "object", idType |-> "string", daysIsArray |-> TRUE,
     trip |-> jsonTrip(t)]

JSONstringify(ts) ==
    [k |-> "json", isArray |-> TRUE,
     value |-> [i \in 1..Len(ts) |-> jsonEntry(ts[i])]]

NoItem == [present |-> FALSE]
Item(text) == [present |-> TRUE, text |-> text]

isValidTripAnyDays(e) ==
    /\ e.k = "object"
    /\ e.idType = "string"

isValidTrip(e) ==
    /\ e.k = "object"
    /\ e.idType = "string"
    /\ e.daysIsArray

\* what the load effect hands to setTrips, lines 61-69: the valid entries of
\* a parsed array, in stored order
validTripsOf(text) ==
    IF text.isArray
    THEN LET validEntries == SelectSeq(text.value, isValidTrip)
         IN  [i \in 1..Len(validEntries) |-> validEntries[i].trip]
    ELSE <<>>

\* a faulty persistEffect, which writes the empty list too: C10 must tell
\* it from persistEffect
persistAlways(ts) == Item(JSONstringify(ts))

\* the persistence effect, lines 86-94
persistEffect(ts) ==
    IF Len(ts) > 0 THEN Item(JSONstringify(ts)) ELSE NoItem

-----------------------------------------------------------------------------
(* The transcript.  about is the trip the message was written for: the     *)
(* destination in the welcome text, the trip of the turn otherwise.        *)

Welcome(trip) == [role |-> "model", text |-> "welcome", about |-> trip.id]
NoChat == [open |-> FALSE]
NoEdit == [open |-> FALSE]
NoTurn == [sel |-> NoTrip, calls |-> <<>>, idx |-> 0, responses |-> <<>>,
           created |-> <<>>, before |-> <<>>, sent |-> <<>>, rounds |-> 0,
           count |-> 0]

-----------------------------------------------------------------------------
(* A render of App: the queued updates are applied in order, the result is *)
(* committed and the effects run: the persistence effect when the trip     *)
(* list changed, ChatPanel's tripRef effect, and ChatPanel's reset effect  *)
(* when the panel mounts or trip.id changed.  A throwing updater unmounts  *)
(* the root: nothing is committed and no effect runs.                      *)

Commit(queue) ==
    \E engineThrows \in BOOLEAN :
        LET st == applyQueue([threw |-> FALSE, trips |-> trips,
                              sel |-> selectedTripId], queue, engineThrows)
            tripsSet == \E n \in 1..Len(queue) : queue[n].op # "select"
            newTrip == selectedTripOf(st.trips, st.sel)
            panelMounts == trips = <<>>
        IN  /\ updateQueue' = <<>>
            /\ IF st.threw
               THEN /\ crashed' = TRUE
                    /\ UNCHANGED <<trips, selectedTripId, storage, tripRef,
                                   messages, chatInstance>>
               ELSE /\ crashed' = crashed
                    /\ trips' = st.trips
                    /\ selectedTripId' = st.sel
                    /\ storage' = IF tripsSet THEN persistEffect(st.trips)
                                  ELSE storage
                    /\ IF st.trips = <<>>
                       THEN UNCHANGED <<tripRef, messages, chatInstance>>
                       ELSE /\ tripRef' = newTrip
                            /\ IF \/ panelMounts
                                  \/ selectedTripOf(trips, selectedTripId).id
                                        # newTrip.id
                               THEN /\ messages' = <<Welcome(newTrip)>>
                                    /\ chatInstance' = NoChat
                               ELSE UNCHANGED <<messages, chatInstance>>

-----------------------------------------------------------------------------
(* Authentication: services/firebase.ts and the auth listener of App.      *)
(* mode is "demo" when isDemoMode || !auth and "real" otherwise; account   *)
(* is the user the real provider holds; session is the localStorage item   *)
(* 'demo_auth_session'; the listener lists hold the callbacks registered.  *)
(* timer is the argument the 50 ms timer of subscribeToAuthChanges will    *)
(* pass, initial says the provider still owes its first notification,      *)
(* signingIn and popup are the pending sign-ins, outcome is how the last   *)
(* popup ended.                                                            *)

NoUser == "none"
mockUser == "demo"
GoogleUser == "google"
NoTimer == "off"

NoAuth(mode, session, account) ==
    [mode |-> mode, session |-> session, account |-> account,
     mockListeners |-> <<>>, realListeners |-> <<>>,
     timer |-> NoTimer, initial |-> FALSE, signingIn |-> FALSE,
     popup |-> FALSE, outcome |-> "none",
     user |-> NoUser, authLoading |-> TRUE, isGuestMode |-> FALSE]

\* the callback App registers, lines 50-55
authCallback(a, u) ==
    [a EXCEPT !.user = u, !.authLoading = FALSE,
              !.isGuestMode = IF u # NoUser THEN FALSE ELSE @]

\* listeners.forEach(cb => cb(u)), every callback being App's
RECURSIVE callEach(_, _, _)
callEach(a, listeners, u) ==
    IF listeners = <<>> THEN a
    ELSE callEach(authCallback(a, u), Tail(listeners), u)

\* notifyMockListeners, lines 77-81
notifyMockListeners(a, u) ==
    [callEach(a, a.mockListeners, u) EXCEPT !.session = (u # NoUser)]

\* subscribeToAuthChanges(callback), lines 116-134
subscribeToAuthChanges(a) ==
    IF a.mode = "demo"
    THEN [a EXCEPT !.mockListeners = Append(@, "app"),
                   !.timer = IF a.session THEN mockUser ELSE NoUser]
    ELSE [a EXCEPT !.realListeners = Append(@, "app"), !.initial = TRUE]

Subscribed == auth.mockListeners \o auth.realListeners # <<>>

\* the screens of App, lines 260-271
LoginShown == ~auth.authLoading /\ auth.user = NoUser /\ ~auth.isGuestMode
AppShown ==
    ~auth.authLoading /\ (auth.user # NoUser \/ auth.isGuestMode)

-----------------------------------------------------------------------------
(* Inputs.                                                                 *)

\* the zones without daylight saving, and zones that change their offset on
\* one of the days: UTC+12/+13 (Auckland), UTC-1/+0 (Azores), UTC+1/+2
\* (Berlin), UTC-5/-4 (New York), in both directions
FixedZones == {FixedZone(o) : o \in -12..14}
ChangingZones ==
    {[before |-> z[1], after |-> z[2], changeDay |-> d] :
        z \in {<<12, 13>>, <<13, 12>>, <<-1, 0>>, <<0, -1>>,
               <<1, 2>>, <<2, 1>>, <<-5, -4>>, <<-4, -5>>},
        d \in 1..MaxDate}
TimeZones == FixedZones \cup ChangingZones
AppTimeZones == {FixedZone(-3)}
Destinations == {"Paris"}
\* the forms NewTripModal submits: every pair of dates, end < start included
AllTripForms ==
    [destination : Destinations, title : {""},
     startDate : {InvalidDate} \cup 1..MaxDate,
     endDate : {InvalidDate} \cup 1..MaxDate]
TripForms == {d \in AllTripForms : d.startDate = 1 /\ d.endDate \in {2}}
\* <input type="time"> of the editor
EditorTimes == {Str("19:15")}

\* handleCreateTrip, lines 142-153
newTrip(data, now, tz) ==
    [id |-> now,
     title |-> IF data.title # "" THEN data.title ELSE data.destination,
     destination |-> data.destination,
     startDate |-> data.startDate,
     endDate |-> data.endDate,
     days |-> generateDays(data.startDate, data.endDate, tz)]

\* what an earlier session of the program left in storage: one trip with one
\* activity, behind an element that is no trip
savedTrip(tz) ==
    LET t == newTrip([destination |-> "Roma", title |-> "",
                      startDate |-> 1, endDate |-> 1], 1, tz)
        a == newActivity(newActivityId(1, 0), NoFields)
    IN  [t EXCEPT !.days[1].activities = <<a>>]

NullEntry == [k |-> "null", idType |-> "absent", daysIsArray |-> FALSE]
Garbage == [k |-> "garbage"]

InitialStorage(tz) ==
    {NoItem, Item(Garbage),
     Item([k |-> "json", isArray |-> TRUE,
           value |-> <<NullEntry, jsonEntry(savedTrip(tz))>>])}

-----------------------------------------------------------------------------
(* Initial state: App has rendered once with its initial state; no effect  *)
(* has run yet.                                                            *)

InitRest ==
    /\ appPhase = "mounted"
    /\ crashed = FALSE
    /\ trips = <<>>
    /\ selectedTripId = NoTrip
    /\ updateQueue = <<>>
    /\ editingActivity = NoEdit
    /\ clock = 2
    /\ messages = <<>>
    /\ input = ""
    /\ isLoading = FALSE
    /\ processingTool = FALSE
    /\ chatInstance = NoChat
    /\ tripRef = [id |-> NoTrip]
    /\ pc = "idle"
    /\ turn = NoTurn

\* the state after construction in a browser that holds a demo session
InitApp ==
    /\ auth = NoAuth("demo", TRUE, NoUser)
    /\ InitRest

Init ==
    /\ tzOffset \in AppTimeZones
    /\ storage \in InitialStorage(tzOffset)
    /\ InitApp

-----------------------------------------------------------------------------
(* Mount effects of App, in declaration order.                             *)

\* the auth listener effect, lines 48-57
authEffect ==
    /\ appPhase = "mounted"
    /\ ~Subscribed
    /\ auth' = subscribeToAuthChanges(auth)
    /\ UNCHANGED restOfApp
    /\ UNCHANGED chatVars

\* the 50 ms timer of subscribeToAuthChanges, lines 121-123
sessionTimerFires ==
    /\ auth.timer # NoTimer
    /\ auth' = [authCallback(auth, auth.timer) EXCEPT !.timer = NoTimer]
    /\ UNCHANGED restOfApp
    /\ UNCHANGED chatVars

\* the load effect, lines 60-84
loadEffect ==
    /\ appPhase = "mounted"
    /\ Subscribed
    /\ appPhase' = "loaded"
    /\ IF ~storage.present \/ storage.text.k = "empty"
       THEN \* getItem gave null or '': the effect does nothing
            UNCHANGED <<storage, updateQueue>>
       ELSE IF storage.text.k # "json"
       THEN \* JSON.parse throws: the catch removes the item
            /\ storage' = NoItem
            /\ UNCHANGED updateQueue
       ELSE LET validTrips == validTripsOf(storage.text)
            IN  /\ UNCHANGED storage
                /\ updateQueue' =
                     IF Len(validTrips) > 0
                     THEN <<[op |-> "load", trips |-> validTrips],
                            [op |-> "select", id |-> validTrips[1].id]>>
                     ELSE updateQueue
    /\ UNCHANGED <<tzOffset, auth, crashed, trips, selectedTripId, editingActivity,
                   clock>>
    /\ UNCHANGED chatVars

\* the first run of the persistence effect: trips is still the initial []
persistEffectOnMount ==
    /\ appPhase = "loaded"
    /\ appPhase' = "running"
    /\ storage' = persistEffect(trips)
    /\ UNCHANGED <<tzOffset, auth, crashed, trips, selectedTripId, updateQueue,
                   editingActivity, clock>>
    /\ UNCHANGED chatVars

\* the render React scheduled for the queued updates
Render ==
    /\ appPhase = "running"
    /\ ~crashed
    /\ updateQueue # <<>>
    /\ pc \in {"idle", "awaitReply", "awaitRate"}
    /\ Commit(updateQueue)
    /\ UNCHANGED <<tzOffset, auth, appPhase, editingActivity, clock, input,
                   isLoading, processingTool, pc, turn>>

-----------------------------------------------------------------------------
(* UI events.  React flushes the updates of a click before the next event, *)
(* so the handler and its render are one step.  A click is handled only    *)
(* between two steps of handleSend, and after the render those scheduled.  *)
(* The clock ticks after every event that reads it: the next event is      *)
(* later.                                                                  *)

UIReady ==
    /\ AppShown
    /\ appPhase = "running"
    /\ ~crashed
    /\ updateQueue = <<>>
    /\ pc \in {"idle", "awaitReply", "awaitRate"}

Displayed == selectedTripOf(trips, selectedTripId)
CountActs(trip) ==
    LET RECURSIVE sum(_)
        sum(j) == IF j = 0 THEN 0
                  ELSE Len(trip.days[j].activities) + sum(j - 1)
    IN  sum(Len(trip.days))

\* handleCreateTrip, lines 141-163
handleCreateTrip(data) ==
    /\ UIReady
    /\ Len(trips) < MaxTrips
    /\ clock < MaxClock
    /\ LET t == newTrip(data, clock, tzOffset)
       IN  Commit(<<[op |-> "create", trip |-> t],
                    [op |-> "select", id |-> t.id]>>)
    /\ clock' = clock + 1
    /\ UNCHANGED <<tzOffset, auth, appPhase, editingActivity, input, isLoading,
                   processingTool, pc, turn>>

\* the trip buttons of the sidebar, line 371
selectTrip(id) ==
    /\ UIReady
    /\ id # selectedTripId
    /\ Commit(<<[op |-> "select", id |-> id]>>)
    /\ UNCHANGED <<tzOffset, auth, appPhase, editingActivity, clock, input,
                   isLoading, processingTool, pc, turn>>

\* handleAddActivity(day.id) from the add buttons, lines 554 and 710
handleAddActivityUI(dayId, random) ==
    /\ UIReady
    /\ trips # <<>>
    /\ CountActs(Displayed) < MaxActs
    /\ clock < MaxClock
    /\ LET a == newActivity(newActivityId(clock, random), NoFields)
       IN  /\ Commit(<<[op |-> "add", sel |-> selectedTripId,
                        dayId |-> dayId, activity |-> a]>>)
           /\ editingActivity' = [open |-> TRUE, dayId |-> dayId,
                                  activity |-> a, original |-> a]
    /\ clock' = clock + 1
    /\ UNCHANGED <<tzOffset, auth, appPhase, input, isLoading, processingTool, pc,
                   turn>>

\* handleDeleteActivity(day.id, activity.id) from the delete button, line 696
handleDeleteActivityUI(dayId, activityId) ==
    /\ UIReady
    /\ Commit(<<[op |-> "delete", sel |-> selectedTripId, dayId |-> dayId,
                 activityId |-> activityId]>>)
    /\ UNCHANGED <<tzOffset, auth, appPhase, editingActivity, clock, input,
                   isLoading, processingTool, pc, turn>>

\* the edit button, line 689: the editor takes a copy of the activity;
\* original keeps what the editor was opened with
startEdit(dayId, activity) ==
    /\ UIReady
    /\ editingActivity' = [open |-> TRUE, dayId |-> dayId,
                           activity |-> activity, original |-> activity]
    /\ UNCHANGED <<tzOffset, auth, storage, appPhase, crashed, trips,
                   selectedTripId, updateQueue, clock>>
    /\ UNCHANGED chatVars

\* the inputs of the editor, lines 577 and 640
editField(field, value) ==
    /\ UIReady
    /\ editingActivity.open
    /\ editingActivity.activity[field] # value
    /\ editingActivity' = [editingActivity EXCEPT !.activity[field] = value]
    /\ UNCHANGED <<tzOffset, auth, storage, appPhase, crashed, trips,
                   selectedTripId, updateQueue, clock>>
    /\ UNCHANGED chatVars

\* handleSaveActivityUI(day.id, editingActivity.activity), lines 233-236, 650
handleSaveActivityUI(dayId) ==
    /\ UIReady
    /\ editingActivity.open
    /\ LET updatedActivity == editingActivity.activity
       IN  Commit(<<[op |-> "update", sel |-> selectedTripId,
                     dayId |-> dayId, activityId |-> updatedActivity.id,
                     updates |-> [f \in ActFields |-> updatedActivity[f]]]>>)
    /\ editingActivity' = NoEdit
    /\ UNCHANGED <<tzOffset, auth, appPhase, clock, input, isLoading,
                   processingTool, pc, turn>>

\* the editor's cancel button, line 649
cancelEdit ==
    /\ UIReady
    /\ editingActivity.open
    /\ editingActivity' = NoEdit
    /\ UNCHANGED <<tzOffset, auth, storage, appPhase, crashed, trips,
                   selectedTripId, updateQueue, clock>>
    /\ UNCHANGED chatVars

\* the days and activities the list view shows
DisplayedDays == {Displayed.days[j] : j \in 1..Len(Displayed.days)}
ActsOf(day) == {day.activities[n] : n \in 1..Len(day.activities)}
\* the editor is shown in place of the activity whose id the draft carries
EditorDays ==
    {day \in DisplayedDays :
        \E a \in ActsOf(day) : a.id = editingActivity.activity.id}

UIEvent ==
    \/ \E data \in TripForms : handleCreateTrip(data)
    \/ \E i \in 1..Len(trips) : selectTrip(trips[i].id)
    \/ /\ trips # <<>>
       \* two clicks never share a tick: one suffix is enough
       /\ \E day \in DisplayedDays : handleAddActivityUI(day.id, 0)
    \/ /\ trips # <<>>
       /\ \E day \in DisplayedDays : \E a \in ActsOf(day) :
              handleDeleteActivityUI(day.id, a.id)
    \/ /\ trips # <<>>
       /\ \E day \in DisplayedDays : \E a \in ActsOf(day) :
              startEdit(day.id, a)
    \/ \E v \in EditorTimes : editField("time", v)
    \/ /\ trips # <<>>
       /\ editingActivity.open
       /\ \E day \in EditorDays : handleSaveActivityUI(day.id)
    \/ cancelEdit

-----------------------------------------------------------------------------
(* The assistant bridge: handleSend and executeTools of ChatPanel.         *)
(* A tool invocation is [id, name, hasArgs, dayId, activityId, fields];    *)
(* hasArgs is FALSE when the invocation carries no args object.            *)
(* turn.created and turn.before are history: the id each executed          *)
(* invocation gave to the activity it created (NoActivity when it created  *)
(* none), and the trip list when the last batch started.                   *)

NoDay == 0

Call(id, name, hasArgs, dayId, activityId, fields) ==
    [id |-> id, name |-> name, hasArgs |-> hasArgs, dayId |-> dayId,
     activityId |-> activityId, fields |-> fields]

\* the argument records the model sends with add_activity
AddArgs ==
    {[NoFields EXCEPT !.title = Str("Jantar"), !.type = Str("FOOD"),
                      !.time = Str("08:30")],
     [NoFields EXCEPT !.title = Str("Jantar"), !.type = Str("FOOD"),
                      !.time = Str("19:15"), !.cost = Num(100)],
     [NoFields EXCEPT !.title = Str("Jantar"), !.type = Str("FOOD")]}

\* the argument records the model sends with update_activity
UpdateArgs ==
    {[NoFields EXCEPT !.time = Str("19:15"), !.cost = Num(0)],
     [NoFields EXCEPT !.time = Num(900)]}

\* the activityData of an add_activity invocation, lines 93-102: every key
\* is written, an argument that is absent as undefined
addActivityData(args) == [f \in ActFields |-> Read(args[f])]

\* a faulty updateActivityData, which writes every key, an absent argument
\* as undefined: C28 must tell it from updateActivityData
updateActivityDataEveryKey(args) ==
    [f \in ActFields |-> IF f = "type" THEN Absent ELSE Read(args[f])]

\* the updates of an update_activity invocation, lines 107-115
updateActivityData(args) ==
    [f \in ActFields |->
        CASE f = "cost" -> IF Read(args.cost) # Undefined
                           THEN args.cost ELSE Absent
          [] f \in {"time", "title"} -> IF Truthy(Read(args[f]))
                                        THEN args[f] ELSE Absent
          [] OTHER -> Absent]

\* a faulty Response, which leaves the id of the invocation out: C8 must
\* tell it from Response
ResponseUnlabelled(call, result) ==
    [id |-> <<>>, name |-> call.name, result |-> result]

Response(call, result) == [id |-> call.id, name |-> call.name,
                           result |-> result]

ChatReady ==
    /\ AppShown
    /\ appPhase = "running"
    /\ ~crashed
    /\ updateQueue = <<>>
    /\ trips # <<>>

ApologyMsg(sel) == [role |-> "model", text |-> "apology", about |-> sel]

\* the text box, line 287
setInput(v) ==
    /\ ChatReady
    /\ pc \in {"idle", "awaitReply", "awaitRate"}
    /\ input # v
    /\ input' = v
    /\ UNCHANGED <<tzOffset, auth, clock, messages, isLoading, processingTool,
                   chatInstance, tripRef, pc, turn>>
    /\ UNCHANGED appVars

\* input.trim() of the texts the text box holds
Trim(v) == IF v = "  " THEN "" ELSE v

\* a faulty handleSend, without the return of line 148: C29 must tell it
\* from handleSend
handleSendUnguarded(created) ==
    /\ ChatReady
    /\ pc \in {"idle", "awaitReply", "awaitRate"}
    /\ turn.count < MaxTurns + 1
    /\ input' = ""
    /\ turn' = [NoTurn EXCEPT !.sel = selectedTripId,
                              !.count = turn.count + 1]
    /\ messages' = Append(messages, [role |-> "user", text |-> "user",
                                     about |-> selectedTripId])
    /\ isLoading' = TRUE
    /\ chatInstance' = [open |-> TRUE, about |-> tripRef.id]
    /\ pc' = "awaitReply"
    /\ UNCHANGED <<tzOffset, auth, clock, tripRef, processingTool>>
    /\ UNCHANGED appVars

\* handleSend, lines 147-167, up to the first await, from the send button
\* or the Enter key at any time.  created is whether createTripChat
\* returns a session or throws (no API key in the browser).
handleSend(created) ==
    /\ ChatReady
    /\ pc \in {"idle", "awaitReply", "awaitRate"}
    /\ IF Trim(input) = "" \/ isLoading
       THEN UNCHANGED vars
       ELSE /\ turn.count < MaxTurns
            /\ input' = ""
            /\ turn' = [NoTurn EXCEPT !.sel = selectedTripId,
                                      !.count = turn.count + 1]
            /\ LET userMsg == [role |-> "user", text |-> "user",
                               about |-> selectedTripId]
               IN  IF chatInstance.open \/ created
                   THEN /\ messages' = Append(messages, userMsg)
                        /\ isLoading' = TRUE
                        /\ chatInstance' = [open |-> TRUE,
                                            about |-> tripRef.id]
                        /\ pc' = "awaitReply"
                        /\ UNCHANGED processingTool
                   ELSE \* the catch and the finally, lines 208-219
                        /\ messages' = messages \o
                               <<userMsg, ApologyMsg(selectedTripId)>>
                        /\ isLoading' = FALSE
                        /\ processingTool' = FALSE
                        /\ UNCHANGED <<chatInstance, pc>>
            /\ UNCHANGED <<tzOffset, auth, clock, tripRef>>
            /\ UNCHANGED appVars

\* sendMessage resolves with plain text: lines 185-206 and the finally
replyText ==
    /\ ChatReady
    /\ pc = "awaitReply"
    /\ messages' = Append(messages, [role |-> "model", text |-> "reply",
                                     about |-> turn.sel])
    /\ isLoading' = FALSE
    /\ processingTool' = FALSE
    /\ pc' = "idle"
    /\ turn' = [turn EXCEPT !.calls = <<>>, !.idx = 0, !.responses = <<>>,
                            !.created = <<>>, !.sent = <<>>]
    /\ UNCHANGED <<tzOffset, auth, clock, input, chatInstance, tripRef>>
    /\ UNCHANGED appVars

\* a faulty sendFails, without the finally block: C6 must tell it from
\* sendFails
sendFailsKeepsLoading ==
    /\ appPhase = "running" /\ ~crashed /\ updateQueue = <<>> /\ trips # <<>>
    /\ pc = "awaitReply"
    /\ messages' = Append(messages, [role |-> "model", text |-> "apology",
                                     about |-> turn.sel])
    /\ pc' = "idle"
    /\ turn' = [turn EXCEPT !.calls = <<>>, !.idx = 0, !.responses = <<>>,
                            !.created = <<>>, !.sent = <<>>]
    /\ UNCHANGED <<tzOffset, auth, clock, input, isLoading, processingTool,
                   chatInstance, tripRef>>
    /\ UNCHANGED appVars

\* sendMessage rejects: the catch, lines 208-215, and the finally
sendFails ==
    /\ ChatReady
    /\ pc = "awaitReply"
    /\ messages' = Append(messages, ApologyMsg(turn.sel))
    /\ isLoading' = FALSE
    /\ processingTool' = FALSE
    /\ pc' = "idle"
    /\ turn' = [turn EXCEPT !.calls = <<>>, !.idx = 0, !.responses = <<>>,
                            !.created = <<>>, !.sent = <<>>]
    /\ UNCHANGED <<tzOffset, auth, clock, input, chatInstance, tripRef>>
    /\ UNCHANGED appVars

\* sendMessage resolves with tool invocations: executeTools starts, line 61
replyCalls(functionCalls) ==
    /\ ChatReady
    /\ pc = "awaitReply"
    /\ turn.rounds < MaxRounds
    /\ processingTool' = TRUE
    /\ turn' = [turn EXCEPT !.calls = functionCalls, !.idx = 1,
                            !.responses = <<>>, !.created = <<>>,
                            !.before = trips, !.sent = <<>>]
    /\ pc' = "exec"
    /\ UNCHANGED <<tzOffset, auth, clock, messages, input, isLoading, chatInstance,
                   tripRef>>
    /\ UNCHANGED appVars

\* one pass of the loop of executeTools, lines 64-141, for every tool but a
\* get_exchange_rate that reaches its fetch
executeCall(random) ==
    /\ appPhase = "running" /\ ~crashed
    /\ pc = "exec"
    /\ turn.idx <= Len(turn.calls)
    /\ LET call == turn.calls[turn.idx]
           newId == newActivityId(clock, random)
           done(result) ==
               turn' = [turn EXCEPT !.idx = @ + 1,
                            !.responses = Append(@, Response(call, result)),
                            !.created = Append(@,
                                IF result.text = "added" THEN newId
                                ELSE NoActivity)]
       IN  CASE call.name = "get_exchange_rate" ->
                  /\ ~call.hasArgs
                  /\ done([text |-> "rateFailed"])
                  /\ UNCHANGED updateQueue
             [] call.name = "get_trip_details" ->
                  /\ done([text |-> "details", trip |-> jsonTrip(tripRef)])
                  /\ UNCHANGED updateQueue
             [] call.name \in {"add_activity", "update_activity",
                               "remove_activity"} /\ ~call.hasArgs ->
                  \* args.dayId of undefined: the catch of line 131
                  /\ done([text |-> "error"])
                  /\ UNCHANGED updateQueue
             [] call.name = "add_activity" /\ call.hasArgs ->
                  /\ updateQueue' = Append(updateQueue,
                        [op |-> "add", sel |-> turn.sel,
                         dayId |-> call.dayId,
                         activity |-> newActivity(newId,
                             addActivityData(call.fields))])
                  /\ done([text |-> "added"])
             [] call.name = "update_activity" /\ call.hasArgs ->
                  /\ updateQueue' = Append(updateQueue,
                        [op |-> "update", sel |-> turn.sel,
                         dayId |-> call.dayId,
                         activityId |-> call.activityId,
                         updates |-> updateActivityData(call.fields)])
                  /\ done([text |-> "updated"])
             [] call.name = "remove_activity" /\ call.hasArgs ->
                  /\ updateQueue' = Append(updateQueue,
                        [op |-> "delete", sel |-> turn.sel,
                         dayId |-> call.dayId,
                         activityId |-> call.activityId])
                  /\ done([text |-> "removed"])
             [] OTHER ->
                  /\ done([text |-> "unknown"])
                  /\ UNCHANGED updateQueue
    /\ UNCHANGED <<tzOffset, auth, storage, appPhase, crashed, trips,
                   selectedTripId, editingActivity, clock, messages, input,
                   isLoading, processingTool, chatInstance, tripRef, pc>>

\* get_exchange_rate reaches its fetch, line 77, and awaits it
fetchRate ==
    /\ appPhase = "running" /\ ~crashed
    /\ pc = "exec"
    /\ turn.idx <= Len(turn.calls)
    /\ turn.calls[turn.idx].name = "get_exchange_rate"
    /\ turn.calls[turn.idx].hasArgs
    /\ pc' = "awaitRate"
    /\ UNCHANGED <<tzOffset, auth, clock, messages, input, isLoading,
                   processingTool, chatInstance, tripRef, turn>>
    /\ UNCHANGED appVars

\* a faulty rateSettles, where a failed lookup ends the batch: C9 must tell
\* it from rateSettles
rateSettlesAborts(outcome) ==
    /\ appPhase = "running" /\ ~crashed /\ updateQueue = <<>> /\ trips # <<>>
    /\ pc = "awaitRate"
    /\ turn' = [turn EXCEPT
                    !.idx = IF outcome = "rate" THEN @ + 1
                            ELSE Len(turn.calls) + 1,
                    !.responses = Append(@, [id |-> turn.calls[turn.idx].id,
                                             name |-> "get_exchange_rate",
                                             result |-> [text |-> outcome]]),
                    !.created = Append(@, NoActivity)]
    /\ pc' = "exec"
    /\ clock' = clock + 1
    /\ UNCHANGED <<tzOffset, auth, messages, input, isLoading,
                   processingTool, chatInstance, tripRef>>
    /\ UNCHANGED appVars

\* the fetch settles, lines 78-89: a rate, a reply without the rate, or a
\* failed request
rateSettles(outcome) ==
    /\ ChatReady
    /\ pc = "awaitRate"
    /\ turn' = [turn EXCEPT !.idx = @ + 1,
                    !.responses = Append(@, Response(turn.calls[turn.idx],
                                                     [text |-> outcome])),
                    !.created = Append(@, NoActivity)]
    /\ pc' = "exec"
    /\ clock' = clock + 1
    /\ UNCHANGED <<tzOffset, auth, messages, input, isLoading,
                   processingTool, chatInstance, tripRef>>
    /\ UNCHANGED appVars

\* the loop is over: lines 143-144, and the sendMessage of lines 176-180
sendToolResponses ==
    /\ appPhase = "running" /\ ~crashed
    /\ pc = "exec"
    /\ turn.idx > Len(turn.calls)
    /\ processingTool' = FALSE
    /\ clock' = clock + 1
    /\ IF chatInstance.open
       THEN /\ turn' = [turn EXCEPT !.sent = turn.responses,
                                    !.rounds = @ + 1]
            /\ pc' = "awaitReply"
            /\ UNCHANGED <<messages, isLoading>>
       ELSE \* the reset effect of a trip switch set chatInstance.current to
            \* null: sendMessage of null raises, the catch and the finally
            /\ messages' = Append(messages, ApologyMsg(turn.sel))
            /\ isLoading' = FALSE
            /\ pc' = "idle"
            /\ turn' = [turn EXCEPT !.calls = <<>>, !.idx = 0,
                                    !.responses = <<>>, !.created = <<>>,
                                    !.sent = <<>>]
    /\ UNCHANGED <<tzOffset, auth, input, chatInstance, tripRef>>
    /\ UNCHANGED appVars

-----------------------------------------------------------------------------
(* The invocations the model sends: it names the days and activities of    *)
(* the trip it was shown, the activity an add_activity of the same reply   *)
(* creates, and identifiers that name nothing.                             *)

FirstDay == tripRef.days[1].id
KnownActs ==
    UNION {{tripRef.days[j].activities[n].id :
               n \in 1..Len(tripRef.days[j].activities)} :
           j \in 1..Len(tripRef.days)}
\* the activity an add_activity of this reply creates
FreshActs == {newActivityId(clock, r) : r \in RandomSuffixes}

ToolCalls(position) ==
    LET id == <<turn.rounds + 1, position>>
    IN  {Call(id, "add_activity", TRUE, FirstDay, NoActivity, f) :
            f \in AddArgs}
        \cup {Call(id, "update_activity", TRUE, FirstDay, a, f) :
                a \in KnownActs \cup FreshActs, f \in UpdateArgs}
        \cup {Call(id, "remove_activity", TRUE, FirstDay, a, NoFields) :
                a \in KnownActs}
        \cup {Call(id, name, TRUE, NoDay, NoActivity, NoFields) :
                name \in {"get_trip_details", "get_exchange_rate",
                          "do_magic"}}
        \cup {Call(id, "add_activity", FALSE, NoDay, NoActivity, NoFields)}

RECURSIVE Batches(_)
Batches(n) ==
    IF n = 0 THEN {<<>>}
    ELSE LET shorter == Batches(n - 1)
         IN  shorter \cup
             {Append(b, c) : b \in {x \in shorter : Len(x) = n - 1},
                             c \in ToolCalls(n)}

Adds(batch) ==
    Cardinality({i \in 1..Len(batch) :
                    batch[i].name = "add_activity" /\ batch[i].hasArgs})

Rates(batch) ==
    Cardinality({i \in 1..Len(batch) :
                    batch[i].name = "get_exchange_rate" /\ batch[i].hasArgs})

FunctionCalls ==
    {b \in Batches(MaxBatch) :
        /\ b # <<>>
        /\ clock + 1 + Rates(b) <= MaxClock
        /\ Adds(b) + CountActs(tripRef) <= MaxActs}

\* what a turn in flight does
TurnSteps ==
    \/ replyText
    \/ sendFails
    \/ /\ ChatReady
       /\ pc = "awaitReply"
       /\ \E b \in FunctionCalls : replyCalls(b)
    \/ \E r \in RandomSuffixes : executeCall(r)
    \/ fetchRate
    \/ \E o \in {"rate", "rateMissing", "rateFailed"} : rateSettles(o)
    \/ sendToolResponses

\* the steps of a turn, and the text box between turns
ChatSteps ==
    \/ /\ pc = "idle"
       /\ turn.count < MaxTurns
       /\ \E v \in {"", "Oi"} : setInput(v)
    \/ TurnSteps

ChatEvent ==
    \* a turn starts with the editor closed
    \/ ~editingActivity.open /\ \E created \in BOOLEAN : handleSend(created)
    \/ ChatSteps

Next ==
    \/ authEffect
    \/ sessionTimerFires
    \/ loadEffect
    \/ persistEffectOnMount
    \/ Render
    \/ pc = "idle" /\ UIEvent
    \/ ChatEvent
Spec == Init /\ [][Next]_vars

\* NewTripModal alone, for every pair of dates and every time zone
InitDays ==
    /\ tzOffset \in TimeZones
    /\ storage = NoItem
    /\ InitApp
NextDays ==
    \/ authEffect
    \/ sessionTimerFires
    \/ loadEffect
    \/ persistEffectOnMount
    \/ \E data \in AllTripForms : handleCreateTrip(data)
SpecDays == InitDays /\ [][NextDays]_vars

-----------------------------------------------------------------------------
(* Signing in and out.  No trip exists yet, so the screens are the spinner, *)
(* the login screen and the empty state.                                    *)

\* the first notification of auth.onAuthStateChanged
providerNotifies ==
    /\ auth.initial
    /\ auth' = [callEach(auth, auth.realListeners, auth.account)
                   EXCEPT !.initial = FALSE]
    /\ UNCHANGED restOfApp
    /\ UNCHANGED chatVars

\* the button of the login screen: signInWithGoogle up to its await
clickSignIn ==
    /\ LoginShown
    /\ ~auth.signingIn /\ ~auth.popup
    /\ auth' = IF auth.mode = "demo"
               THEN [auth EXCEPT !.signingIn = TRUE]
               ELSE [auth EXCEPT !.popup = TRUE, !.outcome = "none"]
    /\ UNCHANGED restOfApp
    /\ UNCHANGED chatVars

\* signInWithGoogle in demo mode, after its 800 ms, lines 85-87
demoSignInDone ==
    /\ auth.signingIn
    /\ auth' = [notifyMockListeners(auth, mockUser)
                   EXCEPT !.signingIn = FALSE]
    /\ UNCHANGED restOfApp
    /\ UNCHANGED chatVars

PopupOutcomes == {"signedIn", "cancelled", "configuration", "other"}

\* signInWithGoogle after auth.signInWithPopup settled, lines 90-101
popupSettles(outcome) ==
    /\ auth.popup
    /\ LET settled == [auth EXCEPT !.popup = FALSE, !.outcome = outcome]
       IN  auth' =
             CASE outcome = "signedIn" ->
                    callEach([settled EXCEPT !.account = GoogleUser],
                             settled.realListeners, GoogleUser)
               [] outcome = "configuration" ->
                    notifyMockListeners(settled, mockUser)
               [] OTHER -> settled
    /\ UNCHANGED restOfApp
    /\ UNCHANGED chatVars

\* the logout button of the empty state, line 281: logout, lines 104-114
clickLogout ==
    /\ AppShown
    /\ auth.user # NoUser
    /\ trips = <<>>
    /\ auth' = IF auth.mode = "demo"
               THEN notifyMockListeners(auth, NoUser)
               ELSE callEach([auth EXCEPT !.account = NoUser],
                             auth.realListeners, NoUser)
    /\ UNCHANGED restOfApp
    /\ UNCHANGED chatVars

\* onGuestLogin, line 270
guestLogin ==
    /\ LoginShown
    /\ auth' = [auth EXCEPT !.isGuestMode = TRUE]
    /\ UNCHANGED restOfApp
    /\ UNCHANGED chatVars

InitAuth ==
    /\ tzOffset \in AppTimeZones
    /\ storage = NoItem
    /\ \E mode \in {"demo", "real"}, session \in BOOLEAN,
          account \in {NoUser, GoogleUser} :
          /\ mode = "demo" => account = NoUser
          /\ auth = NoAuth(mode, session, account)
    /\ InitRest
NextAuth ==
    \/ authEffect
    \/ loadEffect
    \/ persistEffectOnMount
    \/ sessionTimerFires
    \/ providerNotifies
    \/ clickSignIn
    \/ demoSignInDone
    \/ \E outcome \in PopupOutcomes : popupSettles(outcome)
    \/ clickLogout
    \/ guestLogin
SpecAuth == InitAuth /\ [][NextAuth]_vars

-----------------------------------------------------------------------------
(* The assistant's turns while the user creates trips between turns and    *)
(* selects trips at any time, also between the awaits of a turn in flight. *)

NextSwitch ==
    \/ authEffect
    \/ sessionTimerFires
    \/ loadEffect
    \/ persistEffectOnMount
    \/ Render
    \/ pc = "idle" /\ \E data \in TripForms : handleCreateTrip(data)
    \/ \E i \in 1..Len(trips) : selectTrip(trips[i].id)
    \/ ChatEvent
SpecSwitch == Init /\ [][NextSwitch]_vars

-----------------------------------------------------------------------------
(* The assistant's turns while the user works in the editor of an          *)
(* activity: the editor is opened, changed, saved and closed at any time,  *)
(* also while a turn is in flight, and a turn starts with the editor open. *)

EditorEvent ==
    \/ /\ trips # <<>>
       /\ \E day \in DisplayedDays : \E a \in ActsOf(day) :
              startEdit(day.id, a)
    \/ \E v \in EditorTimes : editField("time", v)
    \/ /\ trips # <<>>
       /\ editingActivity.open
       /\ \E day \in EditorDays : handleSaveActivityUI(day.id)
    \/ cancelEdit

NextEdit ==
    \/ authEffect
    \/ sessionTimerFires
    \/ loadEffect
    \/ persistEffectOnMount
    \/ Render
    \/ EditorEvent
    \/ \E created \in BOOLEAN : handleSend(created)
    \/ ChatSteps
SpecEdit == Init /\ [][NextEdit]_vars

-----------------------------------------------------------------------------
(* The text box and the send control at any time, also while a turn is in  *)
(* flight: the user types nothing, blanks or a text, and presses Enter;    *)
(* trips are created between turns and selected at any time.               *)

SendTexts == {"", "  ", "Oi"}

NextSend ==
    \/ authEffect
    \/ sessionTimerFires
    \/ loadEffect
    \/ persistEffectOnMount
    \/ Render
    \/ pc = "idle" /\ \E data \in TripForms : handleCreateTrip(data)
    \/ \E i \in 1..Len(trips) : selectTrip(trips[i].id)
    \/ \E v \in SendTexts : setInput(v)
    \/ \E created \in BOOLEAN : handleSend(created)
    \/ TurnSteps
SpecSend == Init /\ [][NextSend]_vars

-----------------------------------------------------------------------------
(* Startup over every kind of stored text: nothing, the empty string,      *)
(* unparsable text, JSON that is no array, and arrays mixing null, a       *)
(* string, objects with a numeric id or without a days array, and the two  *)
(* trips of an earlier session.                                            *)

MaxStored == 3

earlierTrip(tz) ==
    newTrip([destination |-> "Lima", title |-> "Sul",
             startDate |-> 2, endDate |-> 3], -1, tz)

EmptyText == [k |-> "empty"]
NotAnArray == [k |-> "json", isArray |-> FALSE, value |-> <<>>]
StringEntry == [k |-> "string", idType |-> "absent", daysIsArray |-> FALSE]
NumericIdEntry ==
    [k |-> "object", idType |-> "number", daysIsArray |-> TRUE,
     trip |-> [id |-> 7, days |-> <<>>]]
NoDaysEntry ==
    [k |-> "object", idType |-> "string", daysIsArray |-> FALSE,
     trip |-> [id |-> 8]]

StoredEntries(tz) ==
    {NullEntry, StringEntry, NumericIdEntry, NoDaysEntry,
     jsonEntry(savedTrip(tz)), jsonEntry(earlierTrip(tz))}

StoredArrays(tz) ==
    UNION {[1..n -> StoredEntries(tz)] : n \in 0..MaxStored}

StoredTexts(tz) ==
    {EmptyText, Garbage, NotAnArray}
        \cup {[k |-> "json", isArray |-> TRUE, value |-> a] :
                  a \in StoredArrays(tz)}

InitLoad ==
    /\ tzOffset \in AppTimeZones
    /\ storage \in {NoItem} \cup {Item(t) : t \in StoredTexts(tzOffset)}
    /\ InitApp
NextLoad ==
    \/ authEffect
    \/ sessionTimerFires
    \/ loadEffect
    \/ persistEffectOnMount
    \/ Render
SpecLoad == InitLoad /\ [][NextLoad]_vars

-----------------------------------------------------------------------------
(* Startup over the trips of an earlier session that gave its activities   *)
(* costs: a trip of two days with up to MaxCosted activities a day, each   *)
(* without a cost or costing 0, 100 or 900, alone or next to a second      *)
(* trip; afterwards the user selects trips.                                *)

MaxCosted == 2
Costs == {Undefined, Num(0), Num(100), Num(900)}

\* the activities of a day, from the list of their costs
costedActivities(j, costs) ==
    [n \in 1..Len(costs) |->
        [newActivity(newActivityId(-j, n - 1), NoFields)
            EXCEPT !.cost = costs[n]]]

CostLists == UNION {[1..n -> Costs] : n \in 0..MaxCosted}

costedTrip(tz, first, second) ==
    LET t == earlierTrip(tz)
    IN  [t EXCEPT !.days[1].activities = costedActivities(1, first),
                  !.days[2].activities = costedActivities(2, second)]

CostedStores(tz) ==
    UNION {{<<costedTrip(tz, first, second)>>,
            <<costedTrip(tz, first, second), savedTrip(tz)>>,
            <<savedTrip(tz), costedTrip(tz, first, second)>>} :
           first \in CostLists, second \in CostLists}

InitCost ==
    /\ tzOffset \in AppTimeZones
    /\ storage \in {NoItem}
          \cup {Item(JSONstringify(ts)) : ts \in CostedStores(tzOffset)}
    /\ InitApp
NextCost ==
    \/ authEffect
    \/ sessionTimerFires
    \/ loadEffect
    \/ persistEffectOnMount
    \/ Render
    \/ \E i \in 1..Len(trips) : selectTrip(trips[i].id)
SpecCost == InitCost /\ [][NextCost]_vars

-----------------------------------------------------------------------------
(* Properties.                                                             *)

AllDays ==
    UNION {{trips[i].days[j] : j \in 1..Len(trips[i].days)} :
           i \in 1..Len(trips)}

\* C1: the activity list of every day of every trip is in non-decreasing
\* order of time, in the order of the comparator of lines 182 and 223
\* (the code units of the time, a time that is no string read as its
\* ToString), whatever the UI and the assistant's tools added, updated and
\* deleted.
C1_DaysSorted ==
    \A day \in AllDays : \A n \in 1..(Len(day.activities) - 1) :
        CompareUnits(CodeUnits(JSToString(Read(day.activities[n].time))),
                     CodeUnits(JSToString(Read(day.activities[n + 1].time))))
            <= 0

\* C1, its case: a day whose first activity was created after its second
\* one, so the sort moved it forward, and the two times differ
C1_Witness ==
    \E day \in AllDays :
        /\ Len(day.activities) >= 2
        /\ day.activities[1].id[1] > day.activities[2].id[1]
        /\ day.activities[1].time # day.activities[2].time

DatesOf(trip) == [j \in 1..Len(trip.days) |-> trip.days[j].date]

\* C2: for start <= end the days of a new trip carry the dates start,
\* start+1, ..., end, once each and in order, in every time zone.
C2_DaysCoverRange ==
    \A i \in 1..Len(trips) :
        (/\ InvalidDate \notin {trips[i].startDate, trips[i].endDate}
         /\ trips[i].startDate <= trips[i].endDate) =>
            DatesOf(trips[i]) =
                [j \in 1..(trips[i].endDate - trips[i].startDate + 1) |->
                    trips[i].startDate + j - 1]

\* the activities of the days named dayId of the trips named sel, in ts
ActivitiesAt(ts, sel, dayId) ==
    UNION {{<<i, j, n>> : n \in 1..Len(ts[i].days[j].activities)} :
           <<i, j>> \in Targets(ts, sel, dayId)}
ActivityAt(ts, at) == ts[at[1]].days[at[2]].activities[at[3]]

\* the batch of the turn has been executed and rendered
BatchRendered ==
    /\ pc = "awaitReply"
    /\ turn.sent # <<>>
    /\ updateQueue = <<>>

IsAdd(call) == call.name = "add_activity" /\ call.hasArgs
IsUpdate(call) == call.name = "update_activity" /\ call.hasArgs

\* C3: a batch that adds an activity and then updates the activity the add
\* created leaves the day with exactly one more activity, and that activity
\* carries the values of the update over those of the add.
C3_AddThenUpdateIsOneActivity ==
    (/\ BatchRendered
     /\ Len(turn.calls) = 2
     /\ IsAdd(turn.calls[1])
     /\ IsUpdate(turn.calls[2])
     /\ turn.calls[2].dayId = turn.calls[1].dayId
     /\ turn.calls[2].activityId = turn.created[1])
    => LET add == turn.calls[1]
           upd == turn.calls[2]
           now == ActivitiesAt(trips, turn.sel, add.dayId)
           new == {at \in now : ActivityAt(trips, at).id = turn.created[1]}
       IN  /\ Cardinality(now) =
                Cardinality(ActivitiesAt(turn.before, turn.sel, add.dayId)) + 1
           /\ Cardinality(new) = 1
           /\ \A at \in new : \A f \in {"time", "cost"} :
                  upd.fields[f] # Absent =>
                      ActivityAt(trips, at)[f] = upd.fields[f]

\* C4: the activity an add_activity invocation creates is one more activity
\* of its day, with the supplied value of every field that was supplied and
\* the default of every field that was not.
C4_AddedActivityHasDefaults ==
    (/\ BatchRendered
     /\ ~crashed
     /\ Len(turn.calls) = 1
     /\ IsAdd(turn.calls[1]))
    => LET add == turn.calls[1]
           now == ActivitiesAt(trips, turn.sel, add.dayId)
           new == {at \in now : ActivityAt(trips, at).id = turn.created[1]}
       IN  /\ Cardinality(now) =
                Cardinality(ActivitiesAt(turn.before, turn.sel, add.dayId)) + 1
           /\ Cardinality(new) = 1
           /\ \A at \in new : \A f \in ActFields :
                  ActivityAt(trips, at)[f] =
                      IF add.fields[f] # Absent THEN add.fields[f]
                      ELSE defaultFields[f]

\* C5: no add, update or remove raises: no render is ever aborted by an
\* exception of an updater.
C5_NoOperationRaises == ~crashed

Last(seq) == seq[Len(seq)]

\* a step that ends the turn out of an awaited sendMessage
TurnEnds == pc = "awaitReply" /\ pc' = "idle"

\* C6, as claimed: a turn ends only when the model returned plain text; a
\* rejected sendMessage ends none.
C6_TurnEndsOnlyWithReply ==
    [][TurnEnds => Last(messages').text = "reply"]_vars

\* C6: a rejected sendMessage ends the turn at once: the step appends one
\* message of the model, the reply or the apology of the catch, resets
\* isLoading and processingTool, sends nothing more to the model and leaves
\* the trip list, with what the executed batches did to it, as it is.
C6_RejectionEndsTurn ==
    [][TurnEnds =>
          /\ Len(messages') = Len(messages) + 1
          /\ SubSeq(messages', 1, Len(messages)) = messages
          /\ Last(messages').role = "model"
          /\ Last(messages').text \in {"reply", "apology"}
          /\ ~isLoading'
          /\ ~processingTool'
          /\ turn'.rounds = turn.rounds
          /\ UNCHANGED <<trips, updateQueue, storage>>]_vars

\* C6, its case: the send of the results of a batch was rejected; the turn
\* is over with the apology, and the batch stays applied
C6_Witness ==
    /\ pc = "idle"
    /\ turn.rounds = 1
    /\ Last(messages).text = "apology"
    /\ ~isLoading
    /\ trips # turn.before

\* C7: a turn that has started can always go on, and when it is over
\* isLoading and processingTool are false.
C7_TurnCompletes ==
    /\ pc # "idle" => ENABLED Next
    /\ pc = "idle" => ~isLoading /\ ~processingTool

\* the invocations among the first k of the batch that queue an update
Mutations(k) ==
    Cardinality({n \in 1..k :
        /\ turn.calls[n].hasArgs
        /\ turn.calls[n].name \in {"add_activity", "update_activity",
                                   "remove_activity"}})

Answers(results, n) ==
    /\ results[n].id = turn.calls[n].id
    /\ results[n].name = turn.calls[n].name

\* C8: while a batch runs, the invocations before the current one, and only
\* those, have a result and an effect, in the order of the batch; a rate
\* lookup is awaited before the next invocation starts; the list sent back
\* holds one result per invocation, in order, with its id and name.
C8_BatchSequential ==
    /\ pc \in {"exec", "awaitRate"} =>
          /\ Len(turn.responses) = turn.idx - 1
          /\ \A n \in 1..Len(turn.responses) : Answers(turn.responses, n)
          /\ Len(updateQueue) <= Mutations(turn.idx - 1)
    /\ pc = "awaitRate" =>
          /\ turn.idx <= Len(turn.calls)
          /\ turn.calls[turn.idx].name = "get_exchange_rate"
    /\ (pc = "awaitReply" /\ turn.sent # <<>>) =>
          /\ Len(turn.sent) = Len(turn.calls)
          /\ \A n \in 1..Len(turn.sent) : Answers(turn.sent, n)

\* C8, its case: a batch of a rate lookup and an add_activity was answered
C8_Witness ==
    /\ pc = "awaitReply"
    /\ Len(turn.sent) = 2
    /\ turn.sent[1].name = "get_exchange_rate"
    /\ turn.sent[1].result.text = "rate"
    /\ turn.sent[2].name = "add_activity"
    /\ turn.sent[2].result.text = "added"

FailureTexts == {"unknown", "error", "rateFailed", "rateMissing"}
ToolNames == {"add_activity", "update_activity", "remove_activity",
              "get_trip_details", "get_exchange_rate"}

\* the result the batch owes to an invocation that fails in isolation
FailsAlone(call, result) ==
    /\ call.name \notin ToolNames => result.text = "unknown"
    /\ (call.name \in {"add_activity", "update_activity", "remove_activity"}
        /\ ~call.hasArgs) => result.text = "error"
    /\ call.name = "get_exchange_rate" =>
           result.text \in {"rate", "rateMissing", "rateFailed"}
    /\ (call.name = "get_exchange_rate" /\ ~call.hasArgs) =>
           result.text = "rateFailed"

C9_Results ==
    /\ pc \in {"exec", "awaitRate"} =>
          \A n \in 1..Len(turn.responses) :
              FailsAlone(turn.calls[n], turn.responses[n].result)
    /\ (pc = "awaitReply" /\ turn.sent # <<>>) =>
          /\ Len(turn.sent) = Len(turn.calls)
          /\ \A n \in 1..Len(turn.sent) :
                 FailsAlone(turn.calls[n], turn.sent[n].result)

\* a step that gives the current invocation a failure string
C9_FailureStep ==
    /\ pc \in {"exec", "awaitRate"}
    /\ turn'.idx = turn.idx + 1
    /\ Last(turn'.responses).result.text \in FailureTexts

\* C9: an unknown tool, a rate lookup that fails or lacks the rate, and an
\* exception in the handling of one invocation each give that invocation a
\* failure string, change neither the trip list nor the queued updates nor
\* the storage, and the batch goes on: every invocation gets its result.
C9_FailuresIsolated ==
    /\ []C9_Results
    /\ [][C9_FailureStep =>
             /\ UNCHANGED <<trips, updateQueue, storage, crashed>>
             /\ pc' = "exec"]_vars

\* C9, its case: the first invocation of a batch failed, the second one
\* was executed and changed the trip list
C9_Witness ==
    /\ pc = "awaitReply"
    /\ updateQueue = <<>>
    /\ Len(turn.sent) = 2
    /\ turn.sent[1].result.text \in FailureTexts
    /\ turn.sent[2].result.text = "added"
    /\ trips # turn.before

\* what JSON.parse reads back from a stored activity is the activity
ReadsBack(stored, a) ==
    /\ DOMAIN stored = DOMAIN a
    /\ stored.id = a.id
    /\ \A f \in ActFields : Read(stored[f]) = Read(a[f])

Serializes(entry, trip) ==
    /\ entry.k = "object"
    /\ [f \in DOMAIN trip \ {"days"} |-> entry.trip[f]]
         = [f \in DOMAIN trip \ {"days"} |-> trip[f]]
    /\ Len(entry.trip.days) = Len(trip.days)
    /\ \A j \in 1..Len(trip.days) :
          /\ entry.trip.days[j].id = trip.days[j].id
          /\ entry.trip.days[j].date = trip.days[j].date
          /\ Len(entry.trip.days[j].activities) = Len(trip.days[j].activities)
          /\ \A n \in 1..Len(trip.days[j].activities) :
                 ReadsBack(entry.trip.days[j].activities[n],
                           trip.days[j].activities[n])

\* C10: once the mount effects and the pending renders have run, the item
\* 'viajaai_trips' is absent when the trip list is empty and is otherwise the
\* JSON text of the list: one entry per trip, in order, that reads back as
\* the trip.
C10_StorageMirrorsTrips ==
    (appPhase = "running" /\ updateQueue = <<>>) =>
        IF trips = <<>> THEN storage = NoItem
        ELSE /\ storage.present
             /\ storage.text.k = "json"
             /\ Len(storage.text.value) = Len(trips)
             /\ \A i \in 1..Len(trips) :
                    Serializes(storage.text.value[i], trips[i])

\* C10, its case: two trips, one with an activity whose cost is undefined,
\* have been written
C10_Witness ==
    /\ appPhase = "running"
    /\ updateQueue = <<>>
    /\ Len(trips) = 2
    /\ storage.present
    /\ \E day \in AllDays : \E n \in 1..Len(day.activities) :
           day.activities[n].cost = Undefined

-----------------------------------------------------------------------------
\* the entries of a stored array that are trips of an earlier session
WellFormed(entries) ==
    SelectSeq(entries,
              LAMBDA e : e \in {jsonEntry(savedTrip(tzOffset)),
                                jsonEntry(earlierTrip(tzOffset))})

StoredTripsOf(item) ==
    IF item.present /\ item.text.k = "json" /\ item.text.isArray
    THEN LET w == WellFormed(item.text.value)
         IN  [i \in 1..Len(w) |-> w[i].trip]
    ELSE <<>>

\* what the load effect must have queued for the stored item
C11_Queued(item) ==
    LET ts == StoredTripsOf(item)
    IN  updateQueue = IF ts = <<>> THEN <<>>
                      ELSE <<[op |-> "load", trips |-> ts],
                             [op |-> "select", id |-> ts[1].id]>>

\* the load effect removes unparsable text and queues the well-formed trips
C11_LoadStep ==
    appPhase = "mounted" /\ appPhase' = "loaded" =>
        /\ ~crashed'
        /\ C11_Queued(storage)'
        /\ storage.present /\ storage.text.k = "garbage" => storage' = NoItem
        /\ storage.present /\ storage.text.k # "garbage" => storage' = storage

\* the render of the startup takes over exactly what was queued
C11_RenderStep ==
    updateQueue # <<>> /\ updateQueue' = <<>> =>
        /\ ~crashed'
        /\ trips' = updateQueue[1].trips
        /\ selectedTripId' = trips'[1].id

\* C11: at startup the load keeps exactly the stored entries that are
\* objects with a string id and a days array, in stored order, and selects
\* the first of them; stored text that cannot be parsed is removed and
\* yields no trip; a stored array without a valid entry yields no trip and
\* no selection; the load never raises.
C11_LoadKeepsValidTrips ==
    /\ [](~crashed)
    /\ [](appPhase = "running" /\ trips = <<>> =>
              selectedTripId = NoTrip /\ storage = NoItem)
    /\ [][C11_LoadStep /\ C11_RenderStep]_vars

\* the load effect took two trips out of an array that starts with an
\* object without a days array
C11_Witness ==
    /\ appPhase = "loaded"
    /\ storage.present
    /\ storage.text.k = "json"
    /\ storage.text.isArray
    /\ Len(storage.text.value) = 3
    /\ storage.text.value[1] = NoDaysEntry
    /\ Len(updateQueue) = 2
    /\ updateQueue[1].trips = <<earlierTrip(tzOffset), savedTrip(tzOffset)>>
    /\ updateQueue[2].id = -1

-----------------------------------------------------------------------------
\* what a reload of the page reads out of the stored item: the list the load
\* effect hands to setTrips
Reload(item) ==
    IF item.present /\ item.text.k = "json"
    THEN validTripsOf(item.text)
    ELSE <<>>

SameActivity(a, b) ==
    /\ a.id = b.id
    /\ \A f \in ActFields : Read(a[f]) = Read(b[f])

SameTrip(a, b) ==
    /\ a.id = b.id
    /\ a.destination = b.destination
    /\ a.title = b.title
    /\ a.startDate = b.startDate
    /\ a.endDate = b.endDate
    /\ Len(a.days) = Len(b.days)
    /\ \A j \in 1..Len(b.days) :
          /\ a.days[j].id = b.days[j].id
          /\ a.days[j].date = b.days[j].date
          /\ Len(a.days[j].activities) = Len(b.days[j].activities)
          /\ \A n \in 1..Len(b.days[j].activities) :
                 SameActivity(a.days[j].activities[n],
                              b.days[j].activities[n])

\* C12: whenever the trip list has been persisted, a reload reads back the
\* same trips, days and activities in the same order, every field reading
\* the same value, and reads back no trip when the list is empty.
C12_ReloadRoundTrip ==
    (appPhase = "running" /\ updateQueue = <<>>) =>
        LET back == Reload(storage)
        IN  /\ Len(back) = Len(trips)
            /\ \A i \in 1..Len(trips) : SameTrip(back[i], trips[i])

\* C12, its case: a list of two trips, one of them with a day of two
\* activities, has been persisted and reads back
C12_Witness ==
    /\ appPhase = "running"
    /\ updateQueue = <<>>
    /\ Len(Reload(storage)) = 2
    /\ \E i \in 1..2 : \E j \in 1..Len(trips[i].days) :
           Len(Reload(storage)[i].days[j].activities) = 2

-----------------------------------------------------------------------------
DaysCounted(trip) ==
    Len(trip.days) = trip.endDate - trip.startDate + 1

DayIdsDistinct(trip) ==
    \A j, n \in 1..Len(trip.days) :
        j # n => trip.days[j].id # trip.days[n].id

DatesIncrease(trip) ==
    \A j \in 1..Len(trip.days) - 1 :
        trip.days[j].date < trip.days[j + 1].date

\* C13: a trip created for start <= end has exactly end - start + 1 days,
\* with pairwise distinct ids and strictly increasing ISO dates.
C13_DaysCountedDistinctIncreasing ==
    \A i \in 1..Len(trips) :
        (/\ InvalidDate \notin {trips[i].startDate, trips[i].endDate}
         /\ trips[i].startDate <= trips[i].endDate) =>
            /\ DaysCounted(trips[i])
            /\ DayIdsDistinct(trips[i])
            /\ DatesIncrease(trips[i])

-----------------------------------------------------------------------------
\* the ids of the days and of the activities of the store, and ids of none
DayIds == {day.id : day \in AllDays} \cup {NoDay}
ActivityIds ==
    UNION {{day.activities[n].id : n \in 1..Len(day.activities)} :
           day \in AllDays}
        \cup {NoActivity, newActivityId(MaxClock, 0)}

\* no activity of a day named dayId of the trip named sel has activityId
NonMatching(ts, sel, dayId, activityId) ==
    \A at \in ActivitiesAt(ts, sel, dayId) :
        ActivityAt(ts, at).id # activityId

\* the trip list after handleUpdateActivity and the render it schedules
AfterUpdate(dayId, activityId, updates, engineThrows) ==
    applyUpdate([trips |-> trips, sel |-> selectedTripId, threw |-> FALSE],
                [op |-> "update", sel |-> selectedTripId, dayId |-> dayId,
                 activityId |-> activityId, updates |-> updates],
                engineThrows).trips

\* C14: in every store, handleUpdateActivity with a dayId that names no day
\* of the selected trip, or with an activityId that names no activity of
\* the named day, leaves the trip list as it is; and an update_activity
\* invocation of that kind has left it as it was before the batch.
C14_UnmatchedUpdateChangesNothing ==
    /\ \A dayId \in DayIds : \A activityId \in ActivityIds :
          NonMatching(trips, selectedTripId, dayId, activityId) =>
              \A args \in UpdateArgs : \A engineThrows \in BOOLEAN :
                  AfterUpdate(dayId, activityId, updateActivityData(args),
                              engineThrows) = trips
    /\ (/\ BatchRendered
        /\ Len(turn.calls) = 1
        /\ IsUpdate(turn.calls[1])
        /\ NonMatching(turn.before, turn.sel, turn.calls[1].dayId,
                       turn.calls[1].activityId))
       => trips = turn.before

\* C14, its case: an update_activity for an id that no activity of the
\* day has was executed and rendered on a day that has activities
C14_Witness ==
    /\ BatchRendered
    /\ ~crashed
    /\ Len(turn.calls) = 1
    /\ IsUpdate(turn.calls[1])
    /\ turn.sent[1].result.text = "updated"
    /\ ActivitiesAt(turn.before, turn.sel, turn.calls[1].dayId) # {}
    /\ NonMatching(turn.before, turn.sel, turn.calls[1].dayId,
                   turn.calls[1].activityId)

-----------------------------------------------------------------------------
\* the trip list ts after handleDeleteActivity and the render it schedules
AfterDelete(ts, sel, dayId, activityId) ==
    applyUpdate([trips |-> ts, sel |-> sel, threw |-> FALSE],
                [op |-> "delete", sel |-> sel, dayId |-> dayId,
                 activityId |-> activityId], FALSE).trips

IsRemove(call) == call.name = "remove_activity" /\ call.hasArgs

\* C15: in every store and for every dayId and activityId, deleting twice
\* gives the store that deleting once gives, and deleting an id that no
\* activity of the day has gives the store itself; a batch that removes
\* the same activity twice leaves what one removal leaves.
C15_DeleteIdempotent ==
    /\ \A dayId \in DayIds : \A activityId \in ActivityIds :
          LET once == AfterDelete(trips, selectedTripId, dayId, activityId)
          IN  /\ AfterDelete(once, selectedTripId, dayId, activityId) = once
              /\ NonMatching(trips, selectedTripId, dayId, activityId) =>
                     once = trips
    /\ (/\ BatchRendered
        /\ Len(turn.calls) = 2
        /\ IsRemove(turn.calls[1])
        /\ IsRemove(turn.calls[2])
        /\ turn.calls[2].dayId = turn.calls[1].dayId
        /\ turn.calls[2].activityId = turn.calls[1].activityId)
       => trips = AfterDelete(turn.before, turn.sel, turn.calls[1].dayId,
                              turn.calls[1].activityId)

\* C15, its case: a batch removed an activity of a day of two and removed
\* it again; the other activity is still there
C15_Witness ==
    /\ BatchRendered
    /\ Len(turn.calls) = 2
    /\ IsRemove(turn.calls[1])
    /\ turn.calls[2] = [turn.calls[1] EXCEPT !.id = turn.calls[2].id]
    /\ turn.sent[2].result.text = "removed"
    /\ Cardinality(ActivitiesAt(turn.before, turn.sel,
                                turn.calls[1].dayId)) = 2
    /\ Cardinality(ActivitiesAt(trips, turn.sel, turn.calls[1].dayId)) = 1

-----------------------------------------------------------------------------
\* the activities of the displayed trip, as positions <<day, activity>>
Shown ==
    IF trips = <<>> THEN {}
    ELSE LET t == selectedTripOf(trips, selectedTripId)
         IN  UNION {{<<j, n>> : n \in 1..Len(t.days[j].activities)} :
                    j \in 1..Len(t.days)}

\* the cost of the shown activity at a position, an activity without a
\* cost counting as 0
CostAt(at) ==
    LET cost == Read(selectedTripOf(trips, selectedTripId)
                        .days[at[1]].activities[at[2]].cost)
    IN  IF IsNumber(cost) THEN cost.n ELSE 0

RECURSIVE SumOver(_)
SumOver(positions) ==
    IF positions = {} THEN 0
    ELSE LET at == CHOOSE x \in positions : TRUE
         IN  CostAt(at) + SumOver(positions \ {at})

\* C16: the total cost shown is the sum of the costs of all activities of
\* all days of the selected trip, an activity without a cost counting as 0;
\* it is 0 without a trip, a day or an activity.
C16_TotalIsSumOfCosts ==
    /\ calculateTotalCost(trips, selectedTripId) = Num(SumOver(Shown))
    /\ Shown = {} => calculateTotalCost(trips, selectedTripId) = Num(0)

\* C16, its case: the shown trip has an activity costing 100 and one
\* without a cost on a day, an activity costing 900 on another day, and
\* the total is 1000
C16_Witness ==
    /\ Cardinality(Shown) = 3
    /\ \E a, b, c \in Shown :
          /\ a[1] = b[1] /\ c[1] # a[1]
          /\ CostAt(a) = 100
          /\ Read(selectedTripOf(trips, selectedTripId)
                      .days[b[1]].activities[b[2]].cost) = Undefined
          /\ CostAt(c) = 900
    /\ calculateTotalCost(trips, selectedTripId) = Num(1000)

-----------------------------------------------------------------------------
\* C17: a trip created with an end date before its start date, or with a
\* date that cannot be parsed, has no days, and creating it raises nothing.
C17_BadRangeGivesNoDays ==
    /\ ~crashed
    /\ \A i \in 1..Len(trips) :
          (\/ InvalidDate \in {trips[i].startDate, trips[i].endDate}
           \/ trips[i].endDate < trips[i].startDate)
          => trips[i].days = <<>>

-----------------------------------------------------------------------------
\* C18: with a real auth provider, once a sign-in has failed with a
\* configuration error the callback App registered has been called with
\* the demo user: the application is signed in as that user.
C18_ConfigurationErrorSignsIn ==
    (auth.mode = "real" /\ auth.outcome = "configuration") =>
        /\ auth.user = mockUser
        /\ AppShown

-----------------------------------------------------------------------------
\* the displayed trip with every update applied that the invocations
\* executed so far have queued
TripWithQueuedUpdates ==
    LET st == applyQueue([threw |-> FALSE, trips |-> trips,
                          sel |-> selectedTripId], updateQueue, FALSE)
    IN  selectedTripOf(st.trips, st.sel)

\* C19: the snapshot a get_trip_details invocation returns is the trip with
\* the effect of every add, update and remove executed before it in the
\* turn, those of its own batch included.
C19_DetailsSeeEarlierInvocations ==
    (/\ pc = "exec"
     /\ turn.responses # <<>>
     /\ Last(turn.responses).result.text = "details"
     /\ \A engineThrows \in BOOLEAN :
           ~applyQueue([threw |-> FALSE, trips |-> trips,
                        sel |-> selectedTripId], updateQueue,
                       engineThrows).threw)
    => Last(turn.responses).result.trip = jsonTrip(TripWithQueuedUpdates)

-----------------------------------------------------------------------------
\* C20: every snapshot a get_trip_details invocation of the turn returned
\* is a snapshot of the trip that the add, update and remove invocations
\* of the turn mutate, also when the user selected another trip meanwhile.
C20_OneTripPerTurn ==
    \A n \in 1..Len(turn.responses) :
        turn.responses[n].result.text = "details" =>
            turn.responses[n].result.trip.id = turn.sel

-----------------------------------------------------------------------------
\* the activities of the store ts that have the id of the editor's draft
Edited(ts) ==
    {at \in UNION {ActivitiesAt(ts, selectedTripId, d) : d \in DayIds} :
        ActivityAt(ts, at).id = editingActivity.activity.id}

\* the save button was pressed: the editor closes and its update is applied
SaveStep ==
    /\ editingActivity.open
    /\ ~editingActivity'.open
    /\ ~crashed'
    /\ Edited(trips) # {}

\* C21: saving from the editor keeps, in every field the user left as the
\* editor showed it when it was opened, the value the activity has in the
\* store at that moment, which is the assistant's if the assistant wrote
\* one meanwhile.
C21_SaveKeepsAssistantChanges ==
    [][SaveStep =>
          \A f \in ActFields :
              editingActivity.activity[f] = editingActivity.original[f] =>
                  \A at \in Edited(trips) :
                      \/ trips' = trips
                      \/ \E to \in Edited(trips') :
                            Read(ActivityAt(trips', to)[f])
                                = Read(ActivityAt(trips, at)[f])]_vars

-----------------------------------------------------------------------------
\* the load effect has handed stored trips to setTrips and React has not yet
\* rendered them
LoadPending ==
    /\ appPhase # "mounted"
    /\ updateQueue # <<>>
    /\ updateQueue[1].op = "load"

\* C22: during a startup that found valid trips in storage, the item
\* 'viajaai_trips' stays in storage with those trips in every state between
\* the load effect and the render that takes them over.
C22_KeyNeverRemoved ==
    LoadPending =>
        /\ storage.present
        /\ storage.text.k = "json"
        /\ validTripsOf(storage.text) = updateQueue[1].trips

-----------------------------------------------------------------------------
\* the render that commits another displayed trip: the reset effect of
\* ChatPanel, lines 44-53
SwitchStep ==
    /\ trips # <<>>
    /\ trips' # <<>>
    /\ ~crashed'
    /\ selectedTripOf(trips', selectedTripId').id
          # selectedTripOf(trips, selectedTripId).id

ResetOnSwitch ==
    SwitchStep =>
        /\ messages' = <<Welcome(selectedTripOf(trips', selectedTripId'))>>
        /\ chatInstance' = NoChat

\* every message of the transcript was written for the displayed trip
OwnMessagesOnly ==
    ChatReady =>
        \A i \in 1..Len(messages) :
            messages[i].about = selectedTripOf(trips, selectedTripId).id

\* the send of the tool responses fails on the discarded session
FailsOnDiscardedSession ==
    /\ pc = "exec"
    /\ pc' = "idle"
    /\ ~chatInstance.open

\* C23: when another trip becomes the displayed one the transcript is reset
\* to the welcome message of that trip and the chat session is discarded;
\* the transcript never holds a message of a turn that started while
\* another trip was displayed; and a turn in flight at the switch does not
\* fail on the discarded session.
C23_SwitchResetsChat ==
    /\ []OwnMessagesOnly
    /\ [][ResetOnSwitch /\ ~FailsOnDiscardedSession]_vars

\* the first part of C23 alone
C23_ResetOnly == [][ResetOnSwitch]_vars

-----------------------------------------------------------------------------
\* the trip list after the queued activity updaters ran one after the other,
\* each on the result of the one before
RECURSIVE InIssueOrder(_, _)
InIssueOrder(ts, queue) ==
    IF queue = <<>> THEN ts
    ELSE LET u == Head(queue)
             next == CASE u.op = "add" -> addUpdater(ts, u)
                       [] u.op = "delete" -> deleteUpdater(ts, u)
                       [] u.op = "update" -> updateUpdater(ts, u)
                       [] u.op = "create" -> <<u.trip>> \o ts
                       [] u.op = "load" -> u.trips
                       [] OTHER -> ts
         IN  InIssueOrder(next, Tail(queue))

\* the render of the updates that were queued without a render in between
RenderStep == updateQueue # <<>> /\ updateQueue' = <<>>

\* C24: the mutations queued without a render in between are all applied
\* by the next render, in the order they were issued: none is lost.
C24_QueuedAllApplied ==
    [][RenderStep => ~crashed' /\ trips' = InIssueOrder(trips, updateQueue)]_vars

\* C24 for the renders that complete
C24_AppliedUnlessRaised ==
    [][RenderStep /\ ~crashed' =>
          trips' = InIssueOrder(trips, updateQueue)]_vars

-----------------------------------------------------------------------------
\* the activities of the trip at i, as positions <<day, activity>>
PositionsOf(i) ==
    UNION {{<<j, n>> : n \in 1..Len(trips[i].days[j].activities)} :
           j \in 1..Len(trips[i].days)}

\* C25: the activities of a trip have pairwise distinct ids, whatever
\* additions were made, several add_activity of one batch included.
C25_ActivityIdsDistinct ==
    \A i \in 1..Len(trips) :
        \A p, q \in PositionsOf(i) :
            trips[i].days[p[1]].activities[p[2]].id
                = trips[i].days[q[1]].activities[q[2]].id => p = q

-----------------------------------------------------------------------------
\* selectedTripId names a trip of the list: trips.find of line 97 finds one
SelectedIsListed ==
    trips # <<>> =>
        /\ HasSelected(trips, selectedTripId)
        /\ Displayed.id = selectedTripId

\* a step that changes a trip of the list changes the displayed trip
MutatesDisplayed ==
    Len(trips') = Len(trips) =>
        \A i \in 1..Len(trips) :
            trips'[i] # trips[i] => trips[i].id = selectedTripId

\* a step that creates a trip puts it first and selects it
CreatedIsFirstAndSelected ==
    (appPhase = "running" /\ Len(trips') = Len(trips) + 1) =>
        /\ Tail(trips') = trips
        /\ selectedTripId' = trips'[1].id
        /\ \A i \in 1..Len(trips) : trips[i].id # trips'[1].id

\* C26: with a non-empty trip list selectedTripId is the id of a trip of
\* the list, so that the displayed trip is never the fallback trips[0] and
\* is the trip every add, update and remove changes; a created trip is
\* placed first and selected.
C26_SelectedIsDisplayedAndMutated ==
    /\ []SelectedIsListed
    /\ [][MutatesDisplayed /\ CreatedIsFirstAndSelected]_vars

\* C26 without its clause on the trip the handlers change
C26_SelectedAndCreated ==
    /\ []SelectedIsListed
    /\ [][CreatedIsFirstAndSelected]_vars

-----------------------------------------------------------------------------
\* the trip list after handleAddActivity and the render it schedules
AfterAdd(dayId, activityData, random, engineThrows) ==
    applyUpdate([trips |-> trips, sel |-> selectedTripId, threw |-> FALSE],
                [op |-> "add", sel |-> selectedTripId, dayId |-> dayId,
                 activity |-> newActivity(newActivityId(clock, random),
                                          activityData)],
                engineThrows).trips

\* the days of ts and after whose activity lists differ, as <<trip, day>>
ChangedDays(ts, after) ==
    UNION {{<<i, j>> : j \in {n \in 1..Len(ts[i].days) :
                                after[i].days[n].activities
                                    # ts[i].days[n].activities}} :
           i \in 1..Len(ts)}

\* after differs from ts at most in the activity list of one day, named
\* dayId, of a trip named sel
OnlyDayChanged(ts, after, sel, dayId) ==
    /\ Len(after) = Len(ts)
    /\ \A i \in 1..Len(ts) :
          /\ [after[i] EXCEPT !.days = ts[i].days] = ts[i]
          /\ Len(after[i].days) = Len(ts[i].days)
          /\ \A j \in 1..Len(ts[i].days) :
                [after[i].days[j] EXCEPT !.activities =
                    ts[i].days[j].activities] = ts[i].days[j]
    /\ Cardinality(ChangedDays(ts, after)) <= 1
    /\ \A at \in ChangedDays(ts, after) :
          /\ ts[at[1]].id = sel
          /\ ts[at[1]].days[at[2]].id = dayId

\* C27: in every store and for every dayId, activityId and data, what
\* handleAddActivity, handleUpdateActivity and handleDeleteActivity leave
\* differs from the store at most in the activity list of the one day named
\* dayId of the trip named selectedTripId; so does what a batch of one
\* add, update or remove invocation has left.
C27_OnlyNamedDayChanges ==
    /\ \A dayId \in DayIds : \A engineThrows \in BOOLEAN :
          /\ \A random \in RandomSuffixes :
                OnlyDayChanged(trips,
                               AfterAdd(dayId, NoFields, random, engineThrows),
                               selectedTripId, dayId)
          /\ \A args \in AddArgs :
                OnlyDayChanged(trips,
                               AfterAdd(dayId, addActivityData(args), 0,
                                        engineThrows),
                               selectedTripId, dayId)
          /\ \A activityId \in ActivityIds :
                /\ \A args \in UpdateArgs :
                      OnlyDayChanged(trips,
                                     AfterUpdate(dayId, activityId,
                                                 updateActivityData(args),
                                                 engineThrows),
                                     selectedTripId, dayId)
                /\ OnlyDayChanged(trips,
                                  AfterDelete(trips, selectedTripId, dayId,
                                              activityId),
                                  selectedTripId, dayId)
    /\ (/\ BatchRendered
        /\ Len(turn.calls) = 1
        /\ turn.calls[1].hasArgs)
       => OnlyDayChanged(turn.before, trips, turn.sel, turn.calls[1].dayId)

\* C27, its case: with two trips in the list that have a day of the same
\* id, an add_activity has changed the activity list of that day of the
\* selected trip
C27_Witness ==
    /\ BatchRendered
    /\ Len(turn.calls) = 1
    /\ IsAdd(turn.calls[1])
    /\ Len(trips) = 2
    /\ \A i \in 1..2 : \E j \in 1..Len(trips[i].days) :
          trips[i].days[j].id = turn.calls[1].dayId
    /\ Cardinality(ChangedDays(turn.before, trips)) = 1

-----------------------------------------------------------------------------
\* the fields of an activity that an update_activity with args must keep:
\* id, type and every field args does not supply
Kept(args) == {"id", "type"} \cup {f \in ActFields : args[f] = Absent}

\* every activity named activityId of the day named dayId is, with the
\* fields args must keep, in the day of after too, and after holds no other
KeepsUnsupplied(ts, after, sel, dayId, activityId, args) ==
    LET named(list) == {at \in ActivitiesAt(list, sel, dayId) :
                           ActivityAt(list, at).id = activityId}
        same(a, b) == \A f \in Kept(args) : a[f] = b[f]
    IN  /\ Cardinality(named(after)) = Cardinality(named(ts))
        /\ \A at \in named(ts) : \E to \in named(after) :
              same(ActivityAt(ts, at), ActivityAt(after, to))
        /\ \A to \in named(after) : \E at \in named(ts) :
              same(ActivityAt(ts, at), ActivityAt(after, to))

\* C28: an update_activity invocation leaves the id, the type and every
\* field it does not supply of the activity it names as they were: in
\* every store for every dayId, activityId and arguments, and in what a
\* batch of one update_activity has left.
C28_UpdateKeepsUnsuppliedFields ==
    /\ \A dayId \in DayIds : \A activityId \in ActivityIds :
          \A args \in UpdateArgs : \A engineThrows \in BOOLEAN :
              KeepsUnsupplied(trips,
                              AfterUpdate(dayId, activityId,
                                          updateActivityData(args),
                                          engineThrows),
                              selectedTripId, dayId, activityId, args)
    /\ (/\ BatchRendered
        /\ Len(turn.calls) = 1
        /\ IsUpdate(turn.calls[1]))
       => KeepsUnsupplied(turn.before, trips, turn.sel, turn.calls[1].dayId,
                          turn.calls[1].activityId, turn.calls[1].fields)

\* C28, its case: an update_activity that supplies a time only was executed
\* and rendered; the activity it names has the time, and the cost and title
\* it had
C28_Witness ==
    /\ BatchRendered
    /\ ~crashed
    /\ Len(turn.calls) = 1
    /\ IsUpdate(turn.calls[1])
    /\ turn.calls[1].fields.cost = Absent
    /\ \E at \in ActivitiesAt(trips, turn.sel, turn.calls[1].dayId) :
          /\ ActivityAt(trips, at).id = turn.calls[1].activityId
          /\ ActivityAt(trips, at).time = turn.calls[1].fields.time
          /\ ActivityAt(trips, at).cost = Num(0)
          /\ ActivityAt(trips, at).title # Undefined
    /\ trips # turn.before

-----------------------------------------------------------------------------
\* a turn is in flight: handleSend is past line 159 and not yet through its
\* finally block
InFlight == pc # "idle"

\* a step that starts a turn: a message of the user is appended, and a
\* turn is counted
StartsTurn ==
    \/ turn'.count # turn.count
    \/ /\ Len(messages') > Len(messages)
       /\ \E n \in (Len(messages) + 1)..Len(messages') :
              messages'[n].role = "user"

\* C29: one turn at most is in flight: while isLoading is true, or with
\* an input that is empty or blank, no step appends a message of the user
\* or starts a turn; and isLoading is true exactly from the start of a
\* turn until the turn is over.
C29_OneTurnInFlight ==
    /\ [](InFlight => isLoading)
    /\ [](~InFlight => ~isLoading)
    /\ [][(isLoading \/ Trim(input) = "") => ~StartsTurn]_vars

\* C29, its case: while a turn is in flight the user has typed the next
\* text, so that the send control calls handleSend with isLoading true
C29_Witness ==
    /\ ChatReady
    /\ pc = "awaitReply"
    /\ isLoading
    /\ Trim(input) # ""
    /\ turn.count = 1

\* C29, its other case: between turns the text box holds blanks only
C29_BlankWitness ==
    /\ ChatReady
    /\ pc = "idle"
    /\ input = "  "
    /\ Len(messages) = 1

====
